---------------------------- MODULE Spec2Model ----------------------------
(***************************************************************************)
(* Model of pico2_webusb_example/pico_flash_uploader.py: the host side of  *)
(* the FWUP upload protocol (read_status, end_index, wait_for_status,      *)
(* upload_file).                                                           *)
(*                                                                         *)
(* Text is modelled character by character.  The device's whole output is  *)
(* the sequence `stream`; every buffer of the program is a sequence of     *)
(* positions of `stream`, so a buffer is the text Text(buf) together with  *)
(* where in the device's emission order each character came from.          *)
(***************************************************************************)
EXTENDS Integers, Sequences, FiniteSets, TLC

(***************************************************************************)
(* Bounds of the model.                                                    *)
(***************************************************************************)
\* most characters one read can return (in_ep.wMaxPacketSize of the device)
MaxPacket == 64
\* most payload writes followed in one session
MaxWrites == 4
\* largest lateness of a timed-out read beyond its timeout, in ms
Jitter == 5
\* payload lengths up to which every byte count of a short write is explored
SmallLen == 5
\* most timed-out reads followed in one completion wait
MaxAckPolls == 4

(***************************************************************************)
(* Characters and literal texts.                                           *)
(***************************************************************************)
\* a byte that is not valid UTF-8 (dropped by decode(errors="ignore"))
BadByte == "xFF"
\* the characters str.strip() removes
Whitespace == {" ", "\n"}

FWUP == <<70, 87, 85, 80>>
HEADER_OK == <<"H", "E", "A", "D", "E", "R", "_", "O", "K", " ">>
ERASE_START == <<"E", "R", "A", "S", "E", "_", "S", "T", "A", "R", "T">>
ERASE_DONE == <<"E", "R", "A", "S", "E", "_", "D", "O", "N", "E">>
OK == <<"O", "K">>
NL == <<"\n">>

DigitChar == <<"0", "1", "2", "3", "4", "5", "6", "7", "8", "9">>

\* str(n) for n >= 0: the decimal digits, most significant first
RECURSIVE Decimal(_)
Decimal(n) ==
    IF n < 10 THEN <<DigitChar[n + 1]>>
    ELSE Decimal(n \div 10) \o <<DigitChar[(n % 10) + 1]>>

\* f"HEADER_OK {total_len}"
HeaderOkTarget(len) == HEADER_OK \o Decimal(len)

\* struct.pack("<I", n): four bytes, least significant first
RECURSIVE PackLE(_, _)
PackLE(n, k) ==
    IF k = 0 THEN <<>> ELSE <<n % 256>> \o PackLE(n \div 256, k - 1)

\* struct.pack(">I", n): the same bytes, most significant first
PackBE(n, k) ==
    [i \in 1..k |-> PackLE(n, k)[k + 1 - i]]

\* the header with a big-endian length field
HeaderBE(len) == FWUP \o PackBE(len, 4)

\* b"FWUP" + struct.pack("<I", total_len)
Header(len) == FWUP \o PackLE(len, 4)

Min(a, b) == IF a < b THEN a ELSE b

(***************************************************************************)
(* Sessions: the upload request (payload length, chunk size, timeout in    *)
(* ms), the device and the transport.  The device's text is a sequence of  *)
(* fragments: `script` is emitted during the handshake and the transfer,   *)
(* `ack` once the device has received the whole payload.  A read returns   *)
(* one or more whole consecutive fragments, so the fragment boundaries are *)
(* the places where the text can be cut into reads.  A "clean" transport   *)
(* only delivers text or times out and only raises no error; a "faulty"    *)
(* one also produces zero-length packets, USB errors and zero-byte writes. *)
(***************************************************************************)
Session(len, chunk, tmo, script, ack, transport) ==
    [len |-> len, chunk |-> chunk, timeout |-> tmo, script |-> script,
     ack |-> ack, transport |-> transport]

RECURSIVE Flatten(_)
Flatten(frags) ==
    IF frags = <<>> THEN <<>> ELSE Head(frags) \o Flatten(Tail(frags))

\* the offsets of the text at which a fragment ends
RECURSIVE CutPoints(_)
CutPoints(frags) ==
    IF frags = <<>> THEN {}
    ELSE {Len(Flatten(frags))} \cup CutPoints(SubSeq(frags, 1, Len(frags) - 1))

\* the spec's end-to-end example, markers back to back and cut inside
InOrder16 ==
    Session(16, 4096, 10000,
            <<<<"H", "E", "A", "D">>, <<"E", "R", "_", "O", "K">>, <<" ">>,
              Decimal(16), <<"E", "R", "A", "S", "E", "_">>,
              <<"S", "T", "A", "R", "T">>, ERASE_DONE>>,
            <<OK>>, "clean")
\* the device announces ERASE_DONE before ERASE_START, then sends both again
OutOfOrder16 ==
    Session(16, 4096, 10000,
            <<HeaderOkTarget(16), ERASE_DONE, ERASE_START, ERASE_DONE>>,
            <<OK>>, "clean")
\* every marker sent twice with other text around it; no acknowledgement
Duplicates5 ==
    Session(5, 2, 200,
            <<<<"a">> \o HeaderOkTarget(5) \o <<"b">>, HeaderOkTarget(5) \o <<"c">>,
              ERASE_START \o <<"d">>, ERASE_START \o <<"e">>,
              ERASE_DONE, ERASE_DONE \o <<"f">>, <<"g">>>>,
            <<>>, "clean")
\* the spec's chunking example, newline-terminated lines, an invalid byte
Lines10000 ==
    Session(10000, 4096, 200,
            <<HeaderOkTarget(10000) \o NL, ERASE_START \o NL,
              <<BadByte>> \o ERASE_DONE \o NL, <<"5", "0", "%">> \o NL>>,
            <<OK \o NL>>, "clean")
\* an empty payload
Empty0 ==
    Session(0, 4096, 200,
            <<HeaderOkTarget(0) \o NL, ERASE_START, ERASE_DONE>>, <<OK>>, "clean")
\* lengths that exercise every byte of the header's length field
Wide ==
    Session(16909060, 16909060, 10000,
            <<HeaderOkTarget(16909060), ERASE_START \o ERASE_DONE>>, <<OK>>, "clean")
Widest ==
    Session(2147483647, 1073741824, 10000,
            <<HeaderOkTarget(2147483647) \o ERASE_START \o ERASE_DONE>>,
            <<>>, "clean")
\* small payloads with chunk sizes 1 and 3 on a faulty transport
Small3 ==
    Session(3, 1, 200,
            <<HeaderOkTarget(3), ERASE_START, ERASE_DONE, NL>>, <<>>, "faulty")
Small4 ==
    Session(4, 3, 200,
            <<HeaderOkTarget(4), ERASE_START \o ERASE_DONE, <<"W">>>>,
            <<OK>>, "faulty")

\* the device acknowledges a length other than the payload's
Mismatch1 ==
    Session(1, 4096, 200,
            <<HeaderOkTarget(16), ERASE_START, ERASE_DONE>>, <<>>, "clean")

Sessions ==
    {InOrder16, OutOfOrder16, Duplicates5, Lines10000, Empty0, Wide, Widest,
     Small3, Small4, Mismatch1}

(***************************************************************************)
(* State.                                                                  *)
(***************************************************************************)
VARIABLES
    total_len,      \* len(data), the payload length
    chunk_size,     \* upload_file's chunk_size
    timeout,        \* upload_file's timeout, in ms
    stream,         \* every character the device emits in this run, in order
    gate,           \* the device emits stream[gate+1..] only after the payload
    cuts,           \* the offsets of stream at which a read can end
    transport,      \* "clean" or "faulty"
    delivered,      \* how many characters of stream the host's reads returned
    received,       \* the texts read_status has returned, one after the other
    pc,             \* position of upload_file / wait_for_status
    exc,            \* the exception that left upload_file, or "none"
    status_buffer,  \* upload_file's status_buffer
    w_buf,          \* wait_for_status's parameter status_buffer (its own copy)
    w_status,       \* wait_for_status's status
    status,         \* upload_file's status (<<>> models None and "")
    bytes_sent,     \* upload_file's bytes_sent
    done_msg,       \* upload_file's done_msg (<<>> models None)
    outlog,         \* every out_ep.write of the session, in order
    progress,       \* the texts printed by the per-chunk poll, in order
    elapsed,        \* time.monotonic() - start_time, in ms
    trace,          \* the phases the session has been in, in order
    matched,        \* per marker wait: stream positions of the occurrence trimmed at
    lastTrim,       \* the buffer and marker of the latest trim
    lastIO,         \* how the latest transport call ended
    ackPolls        \* how long each read of the completion wait that returned
                    \* nothing took

vars ==
    <<total_len, chunk_size, timeout, stream, gate, cuts, transport, delivered,
      received, pc, exc, status_buffer, w_buf, w_status, status, bytes_sent, done_msg,
      outlog, progress, elapsed, trace, matched, lastTrim, lastIO, ackPolls>>

request == <<total_len, chunk_size, timeout, stream, gate, cuts, transport>>

(***************************************************************************)
(* Text operations.  A buffer is a sequence of positions of stream.        *)
(***************************************************************************)
Text(buf) == [i \in 1..Len(buf) |-> stream[buf[i]]]

\* target is a substring of text starting at 0-based index i
OccursAt(text, target, i) ==
    /\ i >= 0
    /\ i + Len(target) <= Len(text)
    /\ SubSeq(text, i + 1, i + Len(target)) = target

\* Python's `target in text`
Contains(text, target) ==
    \E i \in 0..(Len(text) - Len(target)) : OccursAt(text, target, i)

\* Python's text.rindex(target): the highest index where target occurs
RIndex(text, target) ==
    CHOOSE i \in 0..(Len(text) - Len(target)) :
        /\ OccursAt(text, target, i)
        /\ \A j \in (i + 1)..(Len(text) - Len(target)) : ~OccursAt(text, target, j)

\* Python's text.index(target): the lowest index where target occurs
Index(text, target) ==
    CHOOSE i \in 0..(Len(text) - Len(target)) :
        /\ OccursAt(text, target, i)
        /\ \A j \in 0..(i - 1) : ~OccursAt(text, target, j)

\* (start, end) of the first occurrence of target
end_index_first(buffer, target) ==
    IF ~Contains(buffer, target) THEN <<>>
    ELSE <<Index(buffer, target), Index(buffer, target) + Len(target)>>

\* end_index: (start, end) of the last occurrence of target; None is <<>>
end_index(buffer, target) ==
    IF ~Contains(buffer, target) THEN <<>>
    ELSE <<RIndex(buffer, target), RIndex(buffer, target) + Len(target)>>

\* buf[from:]
SliceFrom(buf, from) == SubSeq(buf, from + 1, Len(buf))

\* bytes(data).decode("utf-8", errors="ignore"): invalid bytes are dropped
Decode(data) == SelectSeq(data, LAMBDA p : stream[p] # BadByte)

RECURSIVE LStrip(_)
LStrip(buf) ==
    IF buf = <<>> \/ stream[buf[1]] \notin Whitespace THEN buf
    ELSE LStrip(Tail(buf))

RECURSIVE RStrip(_)
RStrip(buf) ==
    IF buf = <<>> \/ stream[buf[Len(buf)]] \notin Whitespace THEN buf
    ELSE RStrip(SubSeq(buf, 1, Len(buf) - 1))

\* str.strip()
Strip(buf) == RStrip(LStrip(buf))

(***************************************************************************)
(* The transport.                                                          *)
(***************************************************************************)
\* errno values of usb.core.USBError
ETIMEDOUT == 110
ETIMEDOUT_BSD == 60
EIO == 5
\* stands for errno None
ErrnoNone == 0

\* The device emits at its own pace: at a read, any prefix of the text it has
\* still to emit may have arrived.  Text behind the gate is emitted only once
\* the device has received the whole payload.
EmitLimit == IF bytes_sent >= total_len THEN Len(stream) ELSE gate

\* in_ep.read(in_ep.wMaxPacketSize, timeout): n characters (n = 0 is a
\* zero-length packet), or a USBError with an errno
ReadOutcomes ==
    {[kind |-> "data", n |-> k, errno |-> ErrnoNone] :
        k \in {j \in 1..Min(EmitLimit - delivered, MaxPacket) : delivered + j \in cuts}}
    \cup {[kind |-> "error", n |-> 0, errno |-> e] : e \in {ETIMEDOUT, ETIMEDOUT_BSD}}
    \cup (IF transport = "faulty"
          THEN {[kind |-> "data", n |-> 0, errno |-> ErrnoNone]}
               \cup {[kind |-> "error", n |-> 0, errno |-> e] : e \in {EIO, ErrnoNone}}
          ELSE {})

DataOf(o) == [i \in 1..o.n |-> delivered + i]

\* a read that timed out
TimedOut(o) == o.kind = "error" /\ o.errno \in {ETIMEDOUT, ETIMEDOUT_BSD}

\* how a read ended
ReadKind(o) ==
    IF o.kind = "data" THEN (IF o.n = 0 THEN "zlp" ELSE "data")
    ELSE IF TimedOut(o) THEN "timeout"
    ELSE IF o.errno = ErrnoNone THEN "nocode"
    ELSE "ioerror"

\* how a write of n bytes ended that reported ret
WriteKind(n, ret) ==
    IF ret = -1 THEN "writeerror"
    ELSE IF ret = n THEN "full"
    ELSE IF ret = 0 THEN "zero"
    ELSE "short"

Returned(msg) == [raised |-> FALSE, msg |-> msg]
Raised == [raised |-> TRUE, msg |-> <<>>]

\* read_status: the decoded, stripped text; <<>> for None; or the USBError raised
read_status(o, suppress_exceptions) ==
    IF o.kind = "data" THEN Returned(Strip(Decode(DataOf(o))))
    ELSE IF suppress_exceptions /\ o.errno = ErrnoNone THEN Returned(<<>>)
    ELSE IF suppress_exceptions /\ o.errno \in {ETIMEDOUT, ETIMEDOUT_BSD}
         THEN Returned(<<>>)
    ELSE Raised

\* how long a read takes that times out after t ms
TimeoutDurations(t) == {t, t + Jitter}


(***************************************************************************)
(* Initial state: upload_file is entered with one of the sessions.         *)
(***************************************************************************)
\* matched and lastTrim describe the handshake in progress
NoMatch == <<0, 0>>
NoMatches == [w \in {"hdr", "es", "ed"} |-> NoMatch]
NoTrim == [buf |-> <<>>, target |-> <<>>, kept |-> <<>>, read |-> <<>>]

Init ==
    /\ \E s \in Sessions :
        /\ total_len = s.len
        /\ chunk_size = s.chunk
        /\ timeout = s.timeout
        /\ stream = Flatten(s.script \o s.ack)
        /\ gate = Len(Flatten(s.script))
        /\ cuts = CutPoints(s.script \o s.ack)
        /\ transport = s.transport
    /\ delivered = 0
    /\ received = <<>>
    /\ pc = "idle"
    /\ exc = "none"
    /\ status_buffer = <<>>
    /\ w_buf = <<>>
    /\ w_status = <<>>
    /\ status = <<>>
    /\ lastIO = "none"
    /\ bytes_sent = 0
    /\ done_msg = <<>>
    /\ outlog = <<>>
    /\ progress = <<>>
    /\ elapsed = 0
    /\ trace = <<"Idle">>
    /\ matched = NoMatches
    /\ lastTrim = NoTrim
    /\ ackPolls = <<>>

(***************************************************************************)
(* Helpers of the actions.                                                 *)
(***************************************************************************)
\* an exception leaves upload_file
Raise(e) ==
    /\ pc' = "raised"
    /\ exc' = e
    /\ trace' = Append(trace, "Failed")

\* a handshake whose second erase wait is for ERASE_START once more
TargetStartTwice(at) ==
    IF at = "hdr_wait" THEN HeaderOkTarget(total_len)
    ELSE ERASE_START

\* the marker a wait is for
Target(at) ==
    IF at = "hdr_wait" THEN HeaderOkTarget(total_len)
    ELSE IF at = "es_wait" THEN ERASE_START
    ELSE ERASE_DONE

\* lines 148-149 and 211-212: what is left of buf after end_index's occurrence
Trimmed(buf, target) == SliceFrom(buf, end_index(Text(buf), target)[2])

\* stream positions of the occurrence of target that end_index picks in buf
MatchOf(buf, target) ==
    <<buf[end_index(Text(buf), target)[1] + 1], buf[end_index(Text(buf), target)[2]]>>

\* the buffer a wait ended with, its marker, what the trim kept, and the text
\* of the wait's latest read
TrimRecord(buf, target, read) ==
    [buf |-> buf, target |-> target, kept |-> Trimmed(buf, target), read |-> read]

(***************************************************************************)
(* upload_file, lines 183-186: the header write.  Its return value is not  *)
(* looked at.  The optional sleep of lines 194-196 changes no state.       *)
(***************************************************************************)
HeaderWrite(ret) ==
    [kind |-> "header", bytes |-> Header(total_len), lo |-> 0, hi |-> 0, ret |-> ret]

SendHeader ==
    /\ pc = "idle"
    /\ \E ok \in (IF transport = "faulty" THEN BOOLEAN ELSE {TRUE}) :
        IF ok
        THEN /\ outlog' = Append(outlog, HeaderWrite(Len(Header(total_len))))
             /\ lastIO' = "full"
             /\ pc' = "hdr_wait"
             /\ trace' = Append(trace, "HeaderSent")
             /\ UNCHANGED exc
        ELSE /\ outlog' = Append(outlog, HeaderWrite(-1))
             /\ lastIO' = "writeerror"
             /\ Raise("USBError")
    /\ UNCHANGED <<request, delivered, received, status_buffer, w_buf, w_status, status,
                   bytes_sent, done_msg, progress, elapsed, matched, lastTrim,
                   ackPolls>>

(***************************************************************************)
(* upload_file, lines 204-210: one iteration of the HEADER_OK wait.        *)
(* A read that returns nothing reaches sleep(0.1), a name the module never *)
(* binds (only `time` is imported): NameError.                             *)
(***************************************************************************)
HeaderWaitPoll ==
    /\ pc = "hdr_wait"
    /\ ~Contains(Text(status_buffer), Target("hdr_wait"))
    /\ \E o \in ReadOutcomes :
        LET r == read_status(o, TRUE) IN
        /\ delivered' = delivered + o.n
        /\ received' = IF r.raised THEN received ELSE received \o r.msg
        /\ lastIO' = ReadKind(o)
        /\ IF r.raised
           THEN /\ Raise("USBError")
                /\ UNCHANGED <<status, status_buffer>>
           ELSE /\ status' = r.msg
                /\ IF r.msg # <<>>
                   THEN /\ status_buffer' = status_buffer \o r.msg
                        /\ UNCHANGED <<pc, exc, trace>>
                   ELSE /\ Raise("NameError")
                        /\ UNCHANGED status_buffer
    /\ UNCHANGED <<request, w_buf, w_status, bytes_sent, done_msg, outlog,
                   progress, elapsed, matched, lastTrim, ackPolls>>

(***************************************************************************)
(* upload_file, lines 211-220: the trim after HEADER_OK and the call of    *)
(* wait_for_status(status_buffer, "ERASE_START", ...), which copies the    *)
(* buffer into the callee's parameter.                                     *)
(***************************************************************************)
HeaderWaitDone ==
    /\ pc = "hdr_wait"
    /\ Contains(Text(status_buffer), Target("hdr_wait"))
    /\ status_buffer' = Trimmed(status_buffer, Target("hdr_wait"))
    /\ w_buf' = status_buffer'
    /\ w_status' = <<>>
    /\ matched' = [matched EXCEPT !["hdr"] = MatchOf(status_buffer, Target("hdr_wait"))]
    /\ lastTrim' = TrimRecord(status_buffer, Target("hdr_wait"), status)
    /\ pc' = "es_wait"
    /\ trace' = Append(trace, "AwaitEraseStart")
    /\ UNCHANGED <<request, delivered, received, exc, status, bytes_sent, done_msg, outlog,
                   progress, elapsed, lastIO, ackPolls>>

(***************************************************************************)
(* wait_for_status, lines 140-146: one iteration of the loop.              *)
(***************************************************************************)
WaitPoll ==
    /\ pc \in {"es_wait", "ed_wait"}
    /\ ~Contains(Text(w_buf), Target(pc))
    /\ \E o \in ReadOutcomes :
        LET r == read_status(o, TRUE) IN
        /\ delivered' = delivered + o.n
        /\ received' = IF r.raised THEN received ELSE received \o r.msg
        /\ lastIO' = ReadKind(o)
        /\ IF r.raised
           THEN /\ Raise("USBError")
                /\ UNCHANGED <<w_buf, w_status>>
           ELSE /\ w_status' = r.msg
                /\ w_buf' = IF r.msg # <<>> THEN w_buf \o r.msg ELSE w_buf
                /\ UNCHANGED <<pc, exc, trace>>
    /\ UNCHANGED <<request, status_buffer, status, bytes_sent, done_msg, outlog,
                   progress, elapsed, matched, lastTrim, ackPolls>>

(***************************************************************************)
(* wait_for_status, lines 147-150: the trim of the callee's own buffer.    *)
(***************************************************************************)
WaitTrim ==
    /\ pc \in {"es_wait", "ed_wait"}
    /\ Contains(Text(w_buf), Target(pc))
    /\ w_buf' = Trimmed(w_buf, Target(pc))
    /\ matched' = [matched EXCEPT ![IF pc = "es_wait" THEN "es" ELSE "ed"] =
                                      MatchOf(w_buf, Target(pc))]
    /\ lastTrim' = TrimRecord(w_buf, Target(pc), w_status)
    /\ pc' = IF pc = "es_wait" THEN "es_trimmed" ELSE "ed_trimmed"
    /\ UNCHANGED <<request, delivered, received, exc, status_buffer, w_status, status,
                   bytes_sent, done_msg, outlog, progress, elapsed, trace, lastIO,
                   ackPolls>>

(***************************************************************************)
(* wait_for_status returns None (line 152); the caller's status_buffer is  *)
(* the string it passed.  Line 222 calls the next wait with it; line 228   *)
(* starts the transfer.                                                    *)
(***************************************************************************)
EraseStartReturn ==
    /\ pc = "es_trimmed"
    /\ w_buf' = status_buffer
    /\ w_status' = <<>>
    /\ pc' = "ed_wait"
    /\ trace' = Append(trace, "AwaitEraseDone")
    /\ UNCHANGED <<request, delivered, received, exc, status_buffer, status, bytes_sent,
                   done_msg, outlog, progress, elapsed, matched, lastTrim, lastIO,
                   ackPolls>>

EraseDoneReturn ==
    /\ pc = "ed_trimmed"
    /\ w_buf' = <<>>
    /\ w_status' = <<>>
    /\ bytes_sent' = 0
    /\ pc' = "xfer"
    /\ trace' = Append(trace, "Transferring")
    /\ matched' = NoMatches
    /\ lastTrim' = NoTrim
    /\ UNCHANGED <<request, delivered, received, exc, status_buffer, status, done_msg,
                   outlog, progress, elapsed, lastIO, ackPolls>>


(***************************************************************************)
(* upload_file, lines 231-233: the loop test, the slice and the write.     *)
(***************************************************************************)
\* the payload writes of the session so far
ChunkWrites == SelectSeq(outlog, LAMBDA w : w.kind = "chunk")

\* a loop test that lets one more pass through: bytes_sent <= total_len
MoreToSendOrEqual(sent) == sent <= total_len

\* line 231: bytes_sent < total_len
MoreToSend(sent) == sent < total_len

\* the end of a slice one byte longer: data[sent : sent + chunk_size + 1]
ChunkEndOneMore(sent) ==
    IF total_len - sent <= chunk_size + 1 THEN total_len ELSE sent + chunk_size + 1

\* line 232: data[sent : sent + chunk_size] ends at min(sent + chunk_size, len(data))
ChunkEnd(sent) ==
    IF total_len - sent <= chunk_size THEN total_len ELSE sent + chunk_size

\* advancing by the length of the chunk, whatever the write reported
AdvanceByChunk(sent, chunkLen, ret) == sent + chunkLen

\* line 233: bytes_sent += out_ep.write(chunk, timeout)
Advance(sent, chunkLen, ret) == sent + ret

\* what out_ep.write may report for a chunk of n bytes; -1 stands for a USBError
WriteOutcomes(n) ==
    (IF total_len <= SmallLen THEN 1..n ELSE {n, n - 1} \cap 1..n)
    \cup (IF transport = "faulty" THEN {0, -1} ELSE {})

WriteChunk ==
    /\ pc = "xfer"
    /\ MoreToSend(bytes_sent)
    /\ Len(ChunkWrites) < MaxWrites
    /\ LET lo == bytes_sent
           hi == ChunkEnd(bytes_sent)
       IN \E ret \in WriteOutcomes(hi - lo) :
            /\ outlog' = Append(outlog, [kind |-> "chunk", bytes |-> <<>>,
                                         lo |-> lo, hi |-> hi, ret |-> ret])
            /\ lastIO' = WriteKind(hi - lo, ret)
            /\ IF ret = -1
               THEN /\ Raise("USBError")
                    /\ UNCHANGED bytes_sent
               ELSE /\ bytes_sent' = Advance(bytes_sent, hi - lo, ret)
                    /\ pc' = "poll"
                    /\ UNCHANGED <<exc, trace>>
    /\ UNCHANGED <<request, delivered, received, status_buffer, w_buf, w_status, status,
                   done_msg, progress, elapsed, matched, lastTrim, ackPolls>>

\* a poll without the try/except of lines 241-246: the USBError ends the session
ChunkPollUnguarded ==
    /\ pc = "poll"
    /\ \E o \in ReadOutcomes :
        LET r == read_status(o, TRUE) IN
        /\ delivered' = delivered + o.n
        /\ received' = IF r.raised THEN received ELSE received \o r.msg
        /\ lastIO' = ReadKind(o)
        /\ status' = IF r.raised THEN status ELSE r.msg
        /\ progress' = IF status' # <<>> THEN Append(progress, status') ELSE progress
        /\ IF r.raised
           THEN Raise("USBError")
           ELSE pc' = "xfer" /\ UNCHANGED <<exc, trace>>
    /\ UNCHANGED <<request, status_buffer, w_buf, w_status, bytes_sent,
                   done_msg, outlog, elapsed, matched, lastTrim, ackPolls>>

(***************************************************************************)
(* upload_file, lines 241-246: the poll after a chunk write.  A USBError   *)
(* that read_status re-raises is passed over, leaving status as it was.    *)
(***************************************************************************)
ChunkPoll ==
    /\ pc = "poll"
    /\ \E o \in ReadOutcomes :
        LET r == read_status(o, TRUE) IN
        /\ delivered' = delivered + o.n
        /\ received' = IF r.raised THEN received ELSE received \o r.msg
        /\ lastIO' = ReadKind(o)
        /\ status' = IF r.raised THEN status ELSE r.msg
        /\ progress' = IF status' # <<>> THEN Append(progress, status') ELSE progress
    /\ pc' = "xfer"
    /\ UNCHANGED <<request, exc, status_buffer, w_buf, w_status, bytes_sent,
                   done_msg, outlog, elapsed, trace, matched, lastTrim, ackPolls>>

(***************************************************************************)
(* upload_file, lines 248-254: the loop ends; the completion wait starts.  *)
(***************************************************************************)
TransferDone ==
    /\ pc = "xfer"
    /\ ~MoreToSend(bytes_sent)
    /\ done_msg' = <<>>
    /\ elapsed' = 0
    /\ pc' = "ack_wait"
    /\ trace' = Append(trace, "AwaitCompletion")
    /\ UNCHANGED <<request, delivered, received, exc, status_buffer, w_buf, w_status,
                   status, bytes_sent, outlog, progress, matched, lastTrim, lastIO,
                   ackPolls>>

(***************************************************************************)
(* upload_file, lines 255-266: one iteration of the completion wait.       *)
(***************************************************************************)
\* the deadline test without the division by 1000.0
DeadlinePassedNoScale(waited, tmo) == waited > tmo * 1000

\* line 259: time.monotonic() - start_time > (timeout / 1000.0), in ms
DeadlinePassed(waited, tmo) == waited > tmo

\* how long the read takes: a timed-out read lasts its timeout (or a little
\* more); the time of the other outcomes is not counted
ReadDurations(o) == IF TimedOut(o) THEN TimeoutDurations(timeout) ELSE {0}

AckPoll ==
    /\ pc = "ack_wait"
    /\ Len(ackPolls) < MaxAckPolls
    /\ \E o \in ReadOutcomes : \E d \in ReadDurations(o) :
        LET r == read_status(o, TRUE) IN
        /\ delivered' = delivered + o.n
        /\ received' = IF r.raised THEN received ELSE received \o r.msg
        /\ lastIO' = ReadKind(o)
        /\ elapsed' = elapsed + d
        /\ ackPolls' = IF ~r.raised /\ r.msg = <<>> THEN Append(ackPolls, d)
                       ELSE ackPolls
        /\ IF r.raised
           THEN /\ Raise("USBError")
                /\ UNCHANGED done_msg
           ELSE /\ done_msg' = r.msg
                /\ IF r.msg # <<>>
                   THEN /\ pc' = "completed"
                        /\ trace' = Append(trace, "Completed")
                        /\ UNCHANGED exc
                   ELSE IF DeadlinePassed(elapsed', timeout)
                   THEN /\ pc' = "no_ack"
                        /\ trace' = Append(trace, "Failed")
                        /\ UNCHANGED exc
                   ELSE UNCHANGED <<pc, exc, trace>>
    /\ UNCHANGED <<request, status_buffer, w_buf, w_status, status, bytes_sent,
                   outlog, progress, matched, lastTrim>>

(***************************************************************************)
(* main, lines 344-361: the exit status of the run.  When upload_file      *)
(* returns, main returns 0.  A USBError is reported and raised again, and  *)
(* a NameError is not caught at all: the interpreter ends with status 1.   *)
(* -1 stands for a run that has not ended.                                 *)
(***************************************************************************)
ExitStatus ==
    IF pc \in {"completed", "no_ack"} THEN 0
    ELSE IF pc = "raised" THEN 1
    ELSE -1

Next ==
    \/ SendHeader
    \/ HeaderWaitPoll
    \/ HeaderWaitDone
    \/ WaitPoll
    \/ WaitTrim
    \/ EraseStartReturn
    \/ EraseDoneReturn
    \/ WriteChunk
    \/ ChunkPoll
    \/ TransferDone
    \/ AckPoll

Spec == Init /\ [][Next]_vars

TypeOK ==
    /\ pc \in {"idle", "hdr_wait", "es_wait", "es_trimmed", "ed_wait", "ed_trimmed",
               "xfer", "poll", "ack_wait", "completed", "no_ack", "raised"}
    /\ exc \in {"none", "USBError", "NameError"}
    /\ delivered \in 0..Len(stream)
    /\ bytes_sent \in 0..total_len


(***************************************************************************)
(* Notions shared by the properties.                                       *)
(***************************************************************************)
Ended == pc \in {"completed", "no_ack", "raised"}

\* the transfer loop has run to its end
TransferOver == pc \in {"ack_wait", "completed", "no_ack"}

\* every payload write so far reported the whole chunk as written
AllWritesFull ==
    \A k \in 1..Len(ChunkWrites) : ChunkWrites[k].ret = ChunkWrites[k].hi - ChunkWrites[k].lo

\* ceil(a / b) for b > 0
Ceil(a, b) == (a \div b) + (IF a % b = 0 THEN 0 ELSE 1)

\* text begins with prefix
StartsWith(text, prefix) == OccursAt(text, prefix, 0)

\* the characters of stream numbered from+1 .. to
Emitted(from, to) == SubSeq(stream, from + 1, to)

HappyPath ==
    <<"Idle", "HeaderSent", "AwaitEraseStart", "AwaitEraseDone", "Transferring",
      "AwaitCompletion", "Completed">>

\* the device of the end-to-end example: the three markers in order, cut into
\* reads at any fragment boundary and emitted at any pace, OK after the payload
EndToEndSession ==
    /\ total_len = 16
    /\ chunk_size = 4096
    /\ stream = HeaderOkTarget(16) \o ERASE_START \o ERASE_DONE \o OK
    /\ gate = Len(stream) - Len(OK)
    /\ transport = "clean"

(***************************************************************************)
(* C1.  End-to-end success: with a 16-byte payload, chunk size 4096 and a  *)
(* device that emits HEADER_OK 16, ERASE_START, ERASE_DONE and, after the  *)
(* data write, OK, a session that has ended (its one write having been     *)
(* taken whole) has gone Idle, HeaderSent, AwaitEraseStart,                *)
(* AwaitEraseDone, Transferring, AwaitCompletion, Completed, has made      *)
(* exactly one chunk write and reports OK, whatever the timing of the      *)
(* device's emissions.                                                     *)
(***************************************************************************)
C1_EndToEnd ==
    (EndToEndSession /\ Ended /\ AllWritesFull) =>
        /\ pc = "completed"
        /\ trace = HappyPath
        /\ Len(ChunkWrites) = 1
        /\ Text(done_msg) = OK

(***************************************************************************)
(* C2.  Merged markers survive a phase boundary: when one read delivered   *)
(* ERASE_STARTERASE_DONE and the wait for ERASE_START was satisfied by its *)
(* prefix (what the trim left begins with ERASE_DONE), the buffer the      *)
(* following wait for ERASE_DONE works on contains ERASE_DONE.             *)
(***************************************************************************)
MergedMarkers == ERASE_START \o ERASE_DONE

\* the read that completed the wait for ERASE_START; when that wait needed
\* no read, the last read of the wait for HEADER_OK
CompletingRead == IF lastTrim.read # <<>> THEN lastTrim.read ELSE status

C2_MergedMarkersSurvive ==
    ( /\ pc = "ed_wait"
      /\ lastTrim.target = ERASE_START
      /\ Contains(Text(CompletingRead), MergedMarkers)
      /\ StartsWith(Text(lastTrim.kept), ERASE_DONE) )
    => Contains(Text(w_buf), ERASE_DONE)

(***************************************************************************)
(* C3.  Markers are consumed in protocol order: the occurrence of          *)
(* ERASE_START a wait was satisfied by lies after the matched HEADER_OK in *)
(* the device's emission order, and the occurrence of ERASE_DONE after     *)
(* that ERASE_START.                                                       *)
(***************************************************************************)
C3_ProtocolOrder ==
    /\ matched["es"] # NoMatch => matched["es"][1] > matched["hdr"][2]
    /\ matched["ed"] # NoMatch => matched["ed"][1] > matched["es"][2]

(***************************************************************************)
(* C4.  Marker reassembly: as soon as the text delivered so far (after the *)
(* marker of the phase before) contains the awaited marker, however it was *)
(* cut into reads, the wait is satisfied: its buffer contains the marker,  *)
(* so that it issues no further read.                                      *)
(***************************************************************************)
\* where in stream the text that may satisfy the wait at `at` begins
PhaseStart(at) ==
    IF at = "hdr_wait" THEN 0
    ELSE IF at = "es_wait" THEN matched["hdr"][2]
    ELSE matched["es"][2]

WaitBuffer == IF pc = "hdr_wait" THEN status_buffer ELSE w_buf

C4_Reassembly ==
    ( /\ pc \in {"hdr_wait", "es_wait", "ed_wait"}
      /\ Contains(Emitted(PhaseStart(pc), delivered), Target(pc)) )
    => Contains(Text(WaitBuffer), Target(pc))

(***************************************************************************)
(* C5.  Chunk count as first stated: once the transfer loop has ended it   *)
(* has made exactly ceil(L/N) payload writes, each of at most N bytes, at  *)
(* increasing offsets.                                                     *)
(***************************************************************************)
WritesBounded ==
    \A k \in 1..Len(ChunkWrites) :
        /\ ChunkWrites[k].hi - ChunkWrites[k].lo <= chunk_size
        /\ k > 1 => ChunkWrites[k].lo > ChunkWrites[k - 1].lo

C5_ChunkCount_Original ==
    TransferOver =>
        /\ Len(ChunkWrites) = Ceil(total_len, chunk_size)
        /\ WritesBounded

(***************************************************************************)
(* C5 (amended).  When every payload write reports the whole chunk as      *)
(* written, a transfer loop that has ended has made exactly ceil(L/N)      *)
(* payload writes, each of at most N bytes, write k at offset (k-1)*N      *)
(* (L = 10000, N = 4096: 4096, 4096, 1808 bytes at 0, 4096, 8192; L = 0:   *)
(* none); before its end it has made no more than that.                    *)
(***************************************************************************)
C5_ChunkCount ==
    AllWritesFull =>
        /\ Len(ChunkWrites) <= Ceil(total_len, chunk_size)
        /\ TransferOver => Len(ChunkWrites) = Ceil(total_len, chunk_size)
        /\ WritesBounded
        /\ \A k \in 1..Len(ChunkWrites) :
              /\ ChunkWrites[k].lo = (k - 1) * chunk_size
              /\ ChunkWrites[k].hi - ChunkWrites[k].lo > 0
        /\ (TransferOver /\ total_len = 10000 /\ chunk_size = 4096) =>
              [k \in 1..3 |-> <<ChunkWrites[k].lo, ChunkWrites[k].hi - ChunkWrites[k].lo>>]
                  = <<<<0, 4096>>, <<4096, 4096>>, <<8192, 1808>>>>
        /\ (TransferOver /\ total_len = 0) => ChunkWrites = <<>>

C5_Witness ==
    /\ TransferOver
    /\ total_len = 10000
    /\ AllWritesFull
    /\ Len(ChunkWrites) = 3

(***************************************************************************)
(* C6.  Offset tracking under short writes: the first payload write starts *)
(* at offset 0, write k sends payload[o_k : min(o_k + N, L)], and write    *)
(* k+1 starts at o_k plus the byte count the transport reported for write  *)
(* k; bytes_sent is the offset the next write would start at.  A write is  *)
(* issued only when the one before has returned.                           *)
(***************************************************************************)
C6_OffsetTracking ==
    /\ \A k \in 1..Len(ChunkWrites) :
          LET w == ChunkWrites[k] IN
          /\ w.lo = IF k = 1 THEN 0 ELSE ChunkWrites[k - 1].lo + ChunkWrites[k - 1].ret
          /\ \/ w.hi - w.lo = chunk_size /\ w.hi <= total_len
             \/ w.hi = total_len /\ total_len - w.lo <= chunk_size
          /\ k < Len(ChunkWrites) => w.ret \in 0..(w.hi - w.lo)
    /\ (pc \in {"xfer", "poll"} /\ ChunkWrites # <<>>) =>
          bytes_sent = ChunkWrites[Len(ChunkWrites)].lo + ChunkWrites[Len(ChunkWrites)].ret
    /\ pc = "poll" => lastIO \in {"full", "short", "zero"}

C6_Witness ==
    \E k \in 1..(Len(ChunkWrites) - 1) :
        /\ ChunkWrites[k].ret >= 1
        /\ ChunkWrites[k].ret < ChunkWrites[k].hi - ChunkWrites[k].lo
        /\ ChunkWrites[k + 1].lo = ChunkWrites[k].lo + ChunkWrites[k].ret


(***************************************************************************)
(* C7.  Header encoding: the first write of a session is 8 bytes, the      *)
(* ASCII codes of F, W, U, P followed by the payload length as an unsigned *)
(* 32-bit little-endian integer (byte i of the field is                    *)
(* (L div 256^i) mod 256), all zero for L = 0; no later write is a header. *)
(***************************************************************************)
C7_HeaderEncoding ==
    /\ pc # "idle" => outlog # <<>>
    /\ outlog # <<>> =>
          /\ outlog[1].kind = "header"
          /\ Len(outlog[1].bytes) = 8
          /\ SubSeq(outlog[1].bytes, 1, 4) = <<70, 87, 85, 80>>
          /\ \A i \in 0..3 : outlog[1].bytes[5 + i] = (total_len \div (256 ^ i)) % 256
          /\ total_len = 0 => SubSeq(outlog[1].bytes, 5, 8) = <<0, 0, 0, 0>>
    /\ \A k \in 2..Len(outlog) : outlog[k].kind = "chunk"

C7_Witness ==
    /\ total_len = 16909060
    /\ Len(outlog) = 2
    /\ outlog[1].bytes = <<70, 87, 85, 80, 4, 3, 2, 1>>

(***************************************************************************)
(* C8.  Trim at the last occurrence: when a wait ends with buffer B        *)
(* containing its marker M, the trim leaves in the wait's buffer exactly   *)
(* the part of B after the last occurrence of M: a contiguous suffix of B, *)
(* preceded in B by M, with no occurrence of M starting later in B.        *)
(***************************************************************************)
C8_TrimAtLast ==
    lastTrim.target # <<>> =>
        LET B == Text(lastTrim.buf)
            M == lastTrim.target
            K == lastTrim.kept
            at == Len(B) - Len(K) - Len(M)
        IN /\ at >= 0
           /\ K = SubSeq(lastTrim.buf, Len(B) - Len(K) + 1, Len(B))
           /\ OccursAt(B, M, at)
           /\ \A j \in (at + 1)..(Len(B) - Len(M)) : ~OccursAt(B, M, j)
           /\ pc \in {"es_trimmed", "ed_trimmed"} => w_buf = K
           /\ M = HeaderOkTarget(total_len) => status_buffer = K

C8_Witness ==
    /\ lastTrim.kept # <<>>
    /\ \E i, j \in 0..Len(lastTrim.buf) :
          /\ i < j
          /\ OccursAt(Text(lastTrim.buf), lastTrim.target, i)
          /\ OccursAt(Text(lastTrim.buf), lastTrim.target, j)

(***************************************************************************)
(* C9.  Completion deadline: when every read of the completion wait times  *)
(* out (the device never responds), the wait ends without a message at an  *)
(* elapsed time t with T <= t <= T + the length of one poll, after at most *)
(* two polls; while it is still polling, no more than T has elapsed.       *)
(***************************************************************************)
NeverResponded == \A i \in 1..Len(ackPolls) : ackPolls[i] >= timeout

C9_Deadline ==
    /\ (pc = "no_ack" /\ NeverResponded) =>
          /\ Len(ackPolls) \in 1..2
          /\ elapsed >= timeout
          /\ elapsed <= timeout + ackPolls[Len(ackPolls)]
          /\ done_msg = <<>>
    /\ (pc = "ack_wait" /\ NeverResponded) => elapsed <= timeout

C9_Witness ==
    /\ pc = "no_ack"
    /\ NeverResponded
    /\ Len(ackPolls) = 2
    /\ elapsed > timeout + Jitter

(***************************************************************************)
(* C10.  A timeout is not an error while waiting for a marker: a read that *)
(* times out in one of the three marker waits leaves the session in the    *)
(* same wait, with its buffers unchanged and no exception, so that the     *)
(* next step of the wait is another read.                                  *)
(***************************************************************************)
C10_TimeoutRetries ==
    [][ ( /\ pc \in {"hdr_wait", "es_wait", "ed_wait"}
          /\ ~Contains(Text(WaitBuffer), Target(pc))
          /\ lastIO' = "timeout" )
        => ( /\ pc' = pc
             /\ exc' = exc
             /\ status_buffer' = status_buffer
             /\ w_buf' = w_buf ) ]_vars

(***************************************************************************)
(* The session is about to call the transport outside the per-chunk poll:  *)
(* the header write, a read of a marker wait, a payload write, a read of   *)
(* the completion wait.                                                    *)
(***************************************************************************)
TransportCallDue ==
    \/ pc = "idle"
    \/ pc \in {"hdr_wait", "es_wait", "ed_wait"}
          /\ ~Contains(Text(WaitBuffer), Target(pc))
    \/ pc = "xfer" /\ MoreToSend(bytes_sent)
    \/ pc = "ack_wait"

\* the session ended with the transport's error handed to the caller
TransportFailure == pc = "raised" /\ exc = "USBError"

\* a session that has failed calls the transport no more
FailedIsFinal ==
    [][pc = "raised" => (outlog' = outlog /\ delivered' = delivered)]_vars

(***************************************************************************)
(* C11.  When the header write, a read of a marker wait, a payload write   *)
(* or a read of the completion wait fails with an error that is not a      *)
(* timeout (a code other than the timeout codes, or no code at all), the   *)
(* session ends as a transport failure that reaches the caller, and the    *)
(* transport is not called again.                                          *)
(***************************************************************************)
C11_NonTimeoutAborts ==
    /\ [][ (TransportCallDue /\ lastIO' \in {"nocode", "ioerror", "writeerror"})
            => TransportFailure' ]_vars
    /\ FailedIsFinal

(***************************************************************************)
(* C12.  A completion wait that ends at its deadline without a message is  *)
(* a failed run: the run ends with a non-zero exit status.  The exit       *)
(* status is 0 only when a non-empty completion message was received.      *)
(***************************************************************************)
C12_NoAckIsFailure ==
    /\ pc = "no_ack" => ExitStatus # 0
    /\ ExitStatus = 0 => done_msg # <<>>

\* the texts read_status has returned so far, joined, contain the marker
Received(marker) == Contains(Text(received), marker)

C14_PollInert ==
    /\ [][ pc = "poll"
           => ( /\ pc' = "xfer"
                /\ delivered' \in delivered..Len(stream)
                /\ UNCHANGED <<status_buffer, w_buf, bytes_sent, outlog, exc, trace,
                               total_len, chunk_size>> ) ]_vars
    /\ [][ (pc = "xfer" /\ outlog' # outlog /\ pc' # "raised") => pc' = "poll" ]_vars
    /\ [][ pc = "xfer" => delivered' = delivered ]_vars

\* a poll failed with an input/output error and the next chunk is due
C14_Witness ==
    /\ pc = "xfer"
    /\ lastIO = "ioerror"
    /\ ChunkWrites # <<>>
    /\ MoreToSend(bytes_sent)
    /\ exc = "none"

\* the character is a decimal digit
IsDigit(c) == \E d \in 0..9 : c = DigitChar[d + 1]

(***************************************************************************)
(* The device's text holds an acknowledgement of the payload's own length: *)
(* 'HEADER_OK <L>' with no further digit after it.                         *)
(***************************************************************************)
AcknowledgesOwnLength ==
    LET own == HeaderOkTarget(total_len) IN
    \E i \in 0..(Len(stream) - Len(own)) :
        /\ OccursAt(stream, own, i)
        /\ (i + Len(own) < Len(stream)) => ~IsDigit(stream[i + Len(own) + 1])

\* the session has gone past the HEADER_OK wait
LeftHeaderSent == \E k \in 1..Len(trace) : trace[k] = "AwaitEraseStart"

(***************************************************************************)
(* C15.  The HEADER_OK wait is satisfied only by an acknowledgement of the *)
(* payload's own length: when the device's text holds 'HEADER_OK <L2>'     *)
(* only for lengths L2 other than L, the session never goes past the       *)
(* HEADER_OK wait (for example L = 1 and the text 'HEADER_OK 16').         *)
(***************************************************************************)
C15_OwnLengthOnly ==
    ~AcknowledgesOwnLength => ~LeftHeaderSent

\* the sum of the counts the first k payload writes reported
RECURSIVE ReportedTotal(_)
ReportedTotal(k) == IF k = 0 THEN 0 ELSE ReportedTotal(k - 1) + ChunkWrites[k].ret

\* every payload write so far returned a count from 1 to the length of its chunk
AllWritesProgress ==
    \A k \in 1..Len(ChunkWrites) :
        ChunkWrites[k].ret \in 1..(ChunkWrites[k].hi - ChunkWrites[k].lo)

(***************************************************************************)
(* C16.  The transfer ends and sends exactly the payload.  As long as      *)
(* every payload write returns a count from 1 to the length of the chunk   *)
(* it was given, the total reported is the sum of the counts and never     *)
(* more than L, and the number of writes is at most that total, hence at   *)
(* most L: each such write is one more write and a larger total.  When     *)
(* the total has reached L no further write is made: the                   *)
(* only step is the one to the completion wait, and the transfer is over   *)
(* with a total of exactly L.                                              *)
(***************************************************************************)
C16_TransferEndsExact ==
    /\ [](AllWritesProgress =>
            /\ bytes_sent = ReportedTotal(Len(ChunkWrites))
            /\ bytes_sent <= total_len
            /\ Len(ChunkWrites) <= bytes_sent
            /\ TransferOver => bytes_sent = total_len)
    /\ [][ (AllWritesProgress /\ pc = "xfer" /\ bytes_sent >= total_len)
           => (pc' = "ack_wait" /\ outlog' = outlog) ]_vars
    /\ [][ (AllWritesProgress' /\ pc = "xfer" /\ bytes_sent < total_len)
           => (Len(outlog') = Len(outlog) + 1 /\ bytes_sent' > bytes_sent) ]_vars

\* a payload of L bytes went out in L writes of one byte each
C16_Witness ==
    /\ pc = "ack_wait"
    /\ total_len > 2
    /\ Len(ChunkWrites) = total_len
    /\ AllWritesProgress
    /\ bytes_sent = total_len

(***************************************************************************)
(* C17.  Progress reports are fresh.  A text is reported during the        *)
(* transfer only by the poll that read it: a poll whose read returned      *)
(* text reports at most that text, and a poll whose read timed out, gave   *)
(* no data or failed reports nothing, so no text read earlier is reported  *)
(* again.                                                                  *)
(***************************************************************************)
C17_FreshProgress ==
    [][ pc = "poll"
        => \/ progress' = progress
           \/ /\ lastIO' = "data"
              /\ Len(progress') = Len(progress) + 1
              /\ \A k \in 1..Len(progress) : progress'[k] = progress[k]
              /\ LET said == progress'[Len(progress')] IN
                 \A j \in 1..Len(said) : said[j] \in (delivered + 1)..delivered' ]_vars

=============================================================================
